---------------------------- MODULE Spec2Model ----------------------------
(***************************************************************************)
(* Model of the AcuarelaArte client-side scripts:                          *)
(*   js/main.js                      page orchestrator (AcuarelaArteApp)   *)
(*   js/components/ThemeToggle.js    light/dark theme (src/unnamed/part_001)*)
(*   js/utils/imageLoader.js         lazy image loader (src/unnamed/part_002)*)
(*   js/components/ResponsiveMenu.js hamburger menu (src/unnamed/part_000)  *)
(* src/unnamed/part_003 is a second copy of main.js whose loadCoreModules   *)
(* does not wire the ResponsiveMenu (lines 130-135 are commented out).      *)
(*                                                                         *)
(* The browser is single threaded: every action below is one callback run  *)
(* to completion (or one synchronous segment of the async init() between   *)
(* two points where it really waits for a dynamic import).                 *)
(*                                                                         *)
(* Environment: a browser able to run main.js (ES modules and dynamic      *)
(* import()), hence window.matchMedia and IntersectionObserver exist; the  *)
(* feature tests at part_001:79, part_001:139 and part_002:57 take their   *)
(* "supported" branch.                                                     *)
(***************************************************************************)
EXTENDS Integers, Sequences, FiniteSets, TLC

\* JavaScript null / undefined / absent attribute / absent storage key.
Null == "<null>"

\* this.themes (part_001:20-23)
LIGHT == "light"
DARK == "dark"
Themes == {LIGHT, DARK}

\* Values the environment may have left under localStorage 'theme', and
\* values a caller may pass to setTheme: the two themes, a foreign string,
\* the empty string (falsy in JavaScript) and nothing at all.
ForeignTheme == "blue"
StoredValues == {Null, LIGHT, DARK, ForeignTheme, ""}
ThemeInputs == {Null, LIGHT, DARK, ForeignTheme, ""}

\* CONFIG (part_002:12-39)
maxRetries == 3
retryDelay == 1000
placeholderClass == "lazy-placeholder"
loadingClass == "image-loading"
loadedClass == "image-loaded"
errorClass == "image-error"

\* ResponsiveMenu (part_000): desktopBreakpoint, the debounce of the resize
\* listener and the delay of focusFirstMenuItem in milliseconds, the two
\* aria-label texts of #menuToggle (written here without their accents).
desktopBreakpoint == 1024
resizeDebounce == 150
focusDelay == 100
OpenLabel == "Abrir menu de navegacion"
CloseLabel == "Cerrar menu de navegacion"

\* Time advances in steps of TickMs milliseconds.
TickMs == 50
DebounceTicks == resizeDebounce \div TickMs
FocusTicks == focusDelay \div TickMs

\* window.innerWidth around the breakpoint.
Widths == {desktopBreakpoint - 1, desktopBreakpoint}

\* Bounds of the model.
MaxItems == 2        \* focusable .nav-link elements in #navMenu
MaxFocusTimers == 2  \* pending timeouts of focusFirstMenuItem
NumImages == 1       \* lazy images on the page
MaxObservers == 2    \* calls of initImageLoader per page
MaxChains == 2       \* load chains per page
MaxAttempts == 5     \* load attempts per chain
Images == 1..NumImages

\* JavaScript truthiness of a string-or-null value.
Truthy(v) == v \notin {Null, ""}

VARIABLES
    \* ---- browser environment -------------------------------------------
    stored,          \* localStorage.getItem('theme'), Null when the key is absent
    sysDark,         \* matchMedia('(prefers-color-scheme: dark)').matches
    hasThemeEl,      \* document.getElementById('themeToggle') exists
    hasMenuEl,       \* document.getElementById('menuToggle') exists
    pageImports,     \* the current page's modules need a dynamic import
    \* ---- DOM -----------------------------------------------------------
    dataTheme,       \* <html data-theme>, Null when the attribute is absent
    metaContent,     \* content of <meta name="theme-color">, Null when no tag
    aria,            \* #themeToggle: aria-label, aria-pressed, title
    transitionOff,   \* <html> has class theme-transition-disabled
    rafPending,      \* nested requestAnimationFrame callbacks still to run
    btnActive,       \* #themeToggle has class theme-toggle-active
    animPending,     \* some animateButton timeout is still pending
    \* ---- AcuarelaArteApp -----------------------------------------------
    pc,              \* position of the async init()
    appTheme,        \* app.state.theme
    isInitialized,   \* app.state.isInitialized
    modThemeToggle,  \* app.modules.themeToggle is an initialised ThemeToggle
    modResponsiveMenu, \* app.modules.responsiveMenu is non-null
    initTrace,       \* the steps init() has completed, in order
    menuWiring,      \* the page loads js/main.js (TRUE) or its copy part_003
    \* ---- observation ---------------------------------------------------
    last,            \* the last handler run that was recorded
    \* ---- imageLoader --------------------------------------------------
    imgs,            \* the page's lazy images: attributes and classes
    retryMap,        \* retryMap: image -> retries so far
    observers,       \* the IntersectionObservers created: targets of each
    imageObserver,   \* imageObserver: index into observers, 0 for null
    chains,          \* the load chains started so far
    imgEvents,       \* events dispatched by the last loader callback
    cleaned,         \* cleanup() returned and the loader was not called since
    \* ---- ResponsiveMenu -----------------------------------------------
    hasNavMenu,      \* document.getElementById('navMenu') exists
    numItems,        \* focusable .nav-link elements inside #navMenu
    menus,           \* the ResponsiveMenu instances, in order of construction
    menuDom,         \* classes of #navMenu and body, ARIA of #menuToggle, overflow
    focus,           \* document.activeElement, as a position of the tab order
    width,           \* window.innerWidth
    focusTimers,     \* pending focusFirstMenuItem timeouts: ticks left of each
    sinceResize,     \* ticks since the last resize event
    mlast            \* the last menu handler run

themeVars == <<stored, sysDark, hasThemeEl, hasMenuEl, pageImports, dataTheme,
               metaContent, aria, transitionOff, rafPending, btnActive,
               animPending, pc, appTheme, isInitialized, modThemeToggle, last,
               modResponsiveMenu, initTrace, menuWiring>>

\* What the wiring of loadCoreModules and the progress of init() add to the
\* state of the app.
wiringVars == <<modResponsiveMenu, initTrace, menuWiring>>

imageVars == <<imgs, retryMap, observers, imageObserver, chains, imgEvents,
               cleaned>>

menuVars == <<hasNavMenu, numItems, menus, menuDom, focus, width, focusTimers,
              sinceResize, mlast>>

vars == <<themeVars, imageVars, menuVars>>

-----------------------------------------------------------------------------
(* ThemeToggle (src/unnamed/part_001), as functions over the part of the    *)
(* page a ThemeToggle touches.                                              *)

\* The state a ThemeToggle method reads and writes; events is the list of
\* events the running handler has dispatched so far.
Page == [dataTheme |-> dataTheme, stored |-> stored, meta |-> metaContent,
         aria |-> aria, events |-> <<>>]

\* this.themeColors (part_001:26-29)
ThemeColor(theme) == IF theme = LIGHT THEN "#FEFEFE" ELSE "#1A1A1A"

\* getInitialTheme() with the system preference consulted before localStorage
GetInitialTheme_SystemFirst(saved, prefersDark) ==
    IF prefersDark THEN DARK
    ELSE IF Truthy(saved) /\ (saved = LIGHT \/ saved = DARK) THEN saved
    ELSE LIGHT

\* getInitialTheme(): localStorage > system preference > light
GetInitialTheme(saved, prefersDark) ==
    IF Truthy(saved) /\ (saved = LIGHT \/ saved = DARK) THEN saved
    ELSE IF prefersDark THEN DARK
    ELSE LIGHT

\* getCurrentTheme(): theme || 'light'
GetCurrentTheme(s) == IF Truthy(s.dataTheme) THEN s.dataTheme ELSE LIGHT

\* updateMetaThemeColor(theme): creates the tag when missing, sets content
UpdateMetaThemeColor(s, theme) == [s EXCEPT !.meta = ThemeColor(theme)]

\* updateAriaAttributes(): label, pressed and title from the current theme
UpdateAriaAttributes(s) ==
    LET currentTheme == GetCurrentTheme(s)
        label == IF currentTheme = LIGHT THEN "Cambiar a modo oscuro"
                                         ELSE "Cambiar a modo claro"
    IN [s EXCEPT !.aria = [label |-> label,
                           pressed |-> IF currentTheme = DARK THEN "true" ELSE "false",
                           title |-> label]]

\* dispatchThemeChangeEvent(theme): a listener runs synchronously and sees
\* the page as it is at the moment of the dispatch.
DispatchThemeChangeEvent(s, theme) ==
    [s EXCEPT !.events = Append(@, [type |-> "themeChanged", theme |-> theme,
                                    seenTheme |-> s.dataTheme,
                                    seenStored |-> s.stored])]

\* setTheme without the validation of its argument
SetTheme_NoValidation(s, theme, saveToStorage) ==
    LET s1 == [s EXCEPT !.dataTheme = theme]
        s2 == IF saveToStorage THEN [s1 EXCEPT !.stored = theme] ELSE s1
        s3 == UpdateMetaThemeColor(s2, theme)
        s4 == UpdateAriaAttributes(s3)
    IN DispatchThemeChangeEvent(s4, theme)

\* setTheme that never writes localStorage
SetTheme_NeverSaves(s, theme, saveToStorage) ==
    IF theme # LIGHT /\ theme # DARK THEN s
    ELSE LET s1 == [s EXCEPT !.dataTheme = theme]
             s3 == UpdateMetaThemeColor(s1, theme)
             s4 == UpdateAriaAttributes(s3)
         IN DispatchThemeChangeEvent(s4, theme)

\* setTheme that dispatches themeChanged before it writes localStorage
SetTheme_DispatchFirst(s, theme, saveToStorage) ==
    IF theme # LIGHT /\ theme # DARK THEN s
    ELSE LET s1 == [s EXCEPT !.dataTheme = theme]
             s2 == DispatchThemeChangeEvent(s1, theme)
             s3 == IF saveToStorage THEN [s2 EXCEPT !.stored = theme] ELSE s2
             s4 == UpdateMetaThemeColor(s3, theme)
         IN UpdateAriaAttributes(s4)

\* setTheme(theme, saveToStorage)
SetTheme(s, theme, saveToStorage) ==
    IF theme # LIGHT /\ theme # DARK THEN s
    ELSE LET s1 == [s EXCEPT !.dataTheme = theme]
             s2 == IF saveToStorage THEN [s1 EXCEPT !.stored = theme] ELSE s1
             s3 == UpdateMetaThemeColor(s2, theme)
             s4 == UpdateAriaAttributes(s3)
         IN DispatchThemeChangeEvent(s4, theme)

\* toggleTheme() with the comparison against the wrong theme
ToggleTarget_Stuck(currentTheme) == IF currentTheme = DARK THEN DARK ELSE LIGHT

\* toggleTheme(): the theme it switches to
ToggleTarget(currentTheme) == IF currentTheme = LIGHT THEN DARK ELSE LIGHT

\* toggleTheme() up to the call of animateButton()
ToggleTheme(s) == SetTheme(s, ToggleTarget(GetCurrentTheme(s)), TRUE)

\* the 'change' listener without its test of localStorage
OnSystemChange_Always(s, matches) ==
    SetTheme(s, IF matches THEN DARK ELSE LIGHT, TRUE)

\* the 'change' listener of watchSystemPreference(), e.matches = matches
OnSystemChange(s, matches) ==
    IF ~Truthy(s.stored)
    THEN SetTheme(s, IF matches THEN DARK ELSE LIGHT, TRUE)
    ELSE s

\* the 'setTheme' document listener: if (e.detail && e.detail.theme)
OnSetThemeEvent(s, detail) ==
    IF detail.present /\ Truthy(detail.theme) THEN SetTheme(s, detail.theme, TRUE)
    ELSE s

\* resetToSystemPreference() that saves the system theme
ResetToSystem_Saves(s, prefersDark) ==
    SetTheme([s EXCEPT !.stored = Null], IF prefersDark THEN DARK ELSE LIGHT, TRUE)

\* resetToSystemPreference(): the method body
ResetToSystem(s, prefersDark) ==
    SetTheme([s EXCEPT !.stored = Null], IF prefersDark THEN DARK ELSE LIGHT, FALSE)

-----------------------------------------------------------------------------
(* Bookkeeping.                                                             *)

\* One handler run: what ran, with which argument, the theme and the stored
\* value it found, the events it dispatched; whether the run before it was a
\* run of the same handler and, if so, the theme and stored value that one
\* found.
Run(op, arg, events) ==
    [op |-> op, arg |-> arg, preTheme |-> dataTheme, preStored |-> stored,
     events |-> events, repeated |-> (last.op = op),
     prevTheme |-> IF last.op = op THEN last.preTheme ELSE Null,
     prevStored |-> IF last.op = op THEN last.preStored ELSE Null]

\* Nothing has run yet.
NoRun == [op |-> "none", arg |-> Null, preTheme |-> Null, preStored |-> Null,
          events |-> <<>>, repeated |-> FALSE,
          prevTheme |-> Null, prevStored |-> Null]

\* Write a Page back to the variables.
Commit(s) ==
    /\ dataTheme' = s.dataTheme
    /\ stored' = s.stored
    /\ metaContent' = s.meta
    /\ aria' = s.aria

\* init() is suspended on a dynamic import, or has finished or failed: the
\* event loop is free to run other callbacks.
Idle == pc \in {"importTheme", "importMenu", "importPage", "ready", "failed"}


\* The markup of a page as served: <html> with or without data-theme="light",
\* with or without a theme-color meta tag, the button not yet labelled by
\* the script (usage example, part_001:393-407).
HtmlThemes == {Null, LIGHT}
HtmlMetas == {Null, "#FEFEFE"}
HtmlAria == [label |-> "Cambiar tema", pressed |-> "false", title |-> Null]

\* e.detail of a 'setTheme' CustomEvent: absent, or an object with a theme
EventDetails == {[present |-> FALSE, theme |-> Null]}
                \cup [present : {TRUE}, theme : ThemeInputs]

NoEvents == <<>>

-----------------------------------------------------------------------------
(* Page load and AcuarelaArteApp (src/js/main.js).                          *)

\* A page of the site is loaded in a browser whose localStorage may already
\* hold anything under 'theme'.
ThemeInit ==
    /\ stored \in StoredValues
    /\ sysDark \in BOOLEAN
    /\ hasThemeEl \in BOOLEAN
    /\ hasMenuEl \in BOOLEAN
    /\ pageImports \in BOOLEAN
    /\ dataTheme \in HtmlThemes
    /\ metaContent \in HtmlMetas
    /\ aria = HtmlAria
    /\ transitionOff = FALSE
    /\ rafPending = 0
    /\ btnActive = FALSE
    /\ animPending = FALSE
    /\ pc = "appConstruct"
    /\ appTheme = Null
    /\ isInitialized = FALSE
    /\ modThemeToggle = FALSE
    /\ last = NoRun
    /\ modResponsiveMenu = FALSE
    /\ initTrace = <<>>
    /\ menuWiring \in BOOLEAN

\* The page before any script ran, theme side.
ThemeStart == ThemeInit /\ stored = Null /\ ~sysDark /\ ~hasThemeEl /\ ~hasMenuEl
              /\ ~pageImports /\ dataTheme = Null /\ metaContent = Null
              /\ menuWiring

\* Navigation to a page of the site or location.reload(): a new document and
\* a new script realm; localStorage survives, the system preference may have
\* changed meanwhile.
Reload ==
    /\ UNCHANGED <<imageVars, menuVars>>
    /\ modResponsiveMenu' = FALSE
    /\ initTrace' = <<>>
    /\ UNCHANGED menuWiring
    /\ Idle
    /\ sysDark' \in BOOLEAN
    /\ hasThemeEl' \in BOOLEAN
    /\ hasMenuEl' \in BOOLEAN
    /\ pageImports' \in BOOLEAN
    /\ dataTheme' \in HtmlThemes
    /\ metaContent' \in HtmlMetas
    /\ aria' = HtmlAria
    /\ transitionOff' = FALSE
    /\ rafPending' = 0
    /\ btnActive' = FALSE
    /\ animPending' = FALSE
    /\ pc' = "appConstruct"
    /\ appTheme' = Null
    /\ isInitialized' = FALSE
    /\ modThemeToggle' = FALSE
    /\ last' = Run("reload", Null, NoEvents)
    /\ UNCHANGED stored

\* new AcuarelaArteApp(): state.theme = localStorage.getItem('theme') || 'light',
\* then init() up to loadCoreModules' test for #themeToggle.  main.js is a
\* module script, so document.readyState is no longer 'loading'.  The
\* initImageLoader() call of loadCoreModules acts on the image loader's own
\* state (InitImageLoader below).
AppConstructor ==
    /\ UNCHANGED <<imageVars, menuVars>>
    /\ modResponsiveMenu' = FALSE
    /\ initTrace' = <<>>
    /\ UNCHANGED menuWiring
    /\ pc = "appConstruct"
    /\ appTheme' = IF Truthy(stored) THEN stored ELSE LIGHT
    /\ isInitialized' = FALSE
    /\ modThemeToggle' = FALSE
    /\ pc' = "coreTheme"
    /\ UNCHANGED <<stored, sysDark, hasThemeEl, hasMenuEl, pageImports, dataTheme,
                   metaContent, aria, transitionOff, rafPending, btnActive,
                   animPending, last>>

\* loadCoreModules: if (themeToggle && APP_CONFIG.features.darkMode) await import(...)
LoadCoreTheme ==
    /\ UNCHANGED <<imageVars, menuVars, wiringVars>>
    /\ pc = "coreTheme"
    /\ pc' = IF hasThemeEl THEN "importTheme" ELSE "coreMenu"
    /\ UNCHANGED <<stored, sysDark, hasThemeEl, hasMenuEl, pageImports, dataTheme,
                   metaContent, aria, transitionOff, rafPending, btnActive,
                   animPending, appTheme, isInitialized, modThemeToggle, last>>

\* new ThemeToggle() -> initialize(): the initial theme is applied without
\* saving it, with transitions disabled until two animation frames passed.
ThemeToggleConstructor ==
    /\ UNCHANGED <<imageVars, menuVars, wiringVars>>
    /\ pc = "importTheme"
    /\ LET initialTheme == GetInitialTheme(stored, sysDark)
           s == UpdateAriaAttributes(SetTheme(Page, initialTheme, FALSE))
       IN /\ Commit(s)
          /\ last' = Run("initialize", initialTheme, s.events)
    /\ transitionOff' = TRUE
    /\ rafPending' = 2
    /\ modThemeToggle' = TRUE
    /\ pc' = "coreMenu"
    /\ UNCHANGED <<sysDark, hasThemeEl, hasMenuEl, pageImports, btnActive,
                   animPending, appTheme, isInitialized>>

\* loadCoreModules: if (menuToggle) await import(...) in js/main.js; in the
\* copy part_003 the block is commented out and loadCoreModules ends here
LoadCoreMenu ==
    /\ UNCHANGED <<imageVars, menuVars>>
    /\ pc = "coreMenu"
    /\ IF menuWiring /\ hasMenuEl
       THEN pc' = "importMenu" /\ UNCHANGED initTrace
       ELSE pc' = "page" /\ initTrace' = Append(initTrace, "loadCoreModules")
    /\ UNCHANGED <<modResponsiveMenu, menuWiring>>
    /\ UNCHANGED <<stored, sysDark, hasThemeEl, hasMenuEl, pageImports, dataTheme,
                   metaContent, aria, transitionOff, rafPending, btnActive,
                   animPending, appTheme, isInitialized, modThemeToggle, last>>

\* the ResponsiveMenu import resolved: this.modules.responsiveMenu =
\* new ResponsiveMenu(), the end of loadCoreModules.  What the constructor
\* does to the menu is LoadResponsiveMenu below.
MenuConstructor ==
    /\ UNCHANGED <<imageVars, menuVars>>
    /\ pc = "importMenu"
    /\ pc' = "page"
    /\ modResponsiveMenu' = TRUE
    /\ initTrace' = Append(initTrace, "loadCoreModules")
    /\ UNCHANGED menuWiring
    /\ UNCHANGED <<stored, sysDark, hasThemeEl, hasMenuEl, pageImports, dataTheme,
                   metaContent, aria, transitionOff, rafPending, btnActive,
                   animPending, appTheme, isInitialized, modThemeToggle, last>>

\* loadPageModules: the page's switch case, with or without an import
LoadPageModules ==
    /\ UNCHANGED <<imageVars, menuVars>>
    /\ pc = "page"
    /\ IF pageImports
       THEN pc' = "importPage" /\ UNCHANGED initTrace
       ELSE pc' = "finish" /\ initTrace' = Append(initTrace, "loadPageModules")
    /\ UNCHANGED <<modResponsiveMenu, menuWiring>>
    /\ UNCHANGED <<stored, sysDark, hasThemeEl, hasMenuEl, pageImports, dataTheme,
                   metaContent, aria, transitionOff, rafPending, btnActive,
                   animPending, appTheme, isInitialized, modThemeToggle, last>>

\* the page module's import resolved and its component was constructed
PageModuleLoaded ==
    /\ UNCHANGED <<imageVars, menuVars>>
    /\ pc = "importPage"
    /\ pc' = "finish"
    /\ initTrace' = Append(initTrace, "loadPageModules")
    /\ UNCHANGED <<modResponsiveMenu, menuWiring>>
    /\ UNCHANGED <<stored, sysDark, hasThemeEl, hasMenuEl, pageImports, dataTheme,
                   metaContent, aria, transitionOff, rafPending, btnActive,
                   animPending, appTheme, isInitialized, modThemeToggle, last>>

\* a dynamic import rejected: init()'s catch block, handleInitError
ImportRejected ==
    /\ UNCHANGED <<imageVars, menuVars, wiringVars>>
    /\ pc \in {"importTheme", "importMenu", "importPage"}
    /\ pc' = "failed"
    /\ UNCHANGED <<stored, sysDark, hasThemeEl, hasMenuEl, pageImports, dataTheme,
                   metaContent, aria, transitionOff, rafPending, btnActive,
                   animPending, appTheme, isInitialized, modThemeToggle, last>>

\* applyTheme(theme)
ApplyTheme(theme) ==
    /\ dataTheme' = theme
    /\ appTheme' = theme

\* The part of the app the tail of init() writes; events is the list of
\* events it has dispatched so far.
App == [trace |-> initTrace, isInitialized |-> isInitialized, events |-> <<>>]

\* document.dispatchEvent(new CustomEvent('appInitialized', ...)): a listener
\* runs synchronously and sees the app as it is at the moment of the dispatch
DispatchAppInitialized(a) ==
    [a EXCEPT !.trace = Append(@, "appInitialized"),
              !.events = Append(@, [type |-> "appInitialized", theme |-> Null,
                                    seenTheme |-> appTheme, seenStored |-> stored,
                                    seenInitialized |-> a.isInitialized,
                                    seenTrace |-> a.trace])]

\* the tail of init() with the event dispatched before the flag is set
InitTail_EventFirst(a) ==
    LET a1 == [a EXCEPT !.trace = Append(@, "initGlobalListeners")]
        a2 == [a1 EXCEPT !.trace = Append(@, "applyTheme")]
        a3 == DispatchAppInitialized(a2)
    IN [a3 EXCEPT !.isInitialized = TRUE]

\* the tail of init(): initGlobalListeners(), applyTheme(state.theme),
\* isInitialized = true, dispatch appInitialized
InitTail(a) ==
    LET a1 == [a EXCEPT !.trace = Append(@, "initGlobalListeners")]
        a2 == [a1 EXCEPT !.trace = Append(@, "applyTheme")]
        a3 == [a2 EXCEPT !.isInitialized = TRUE]
    IN DispatchAppInitialized(a3)

\* init() after the awaits
FinishInit ==
    /\ UNCHANGED <<imageVars, menuVars>>
    /\ pc = "finish"
    /\ ApplyTheme(appTheme)
    /\ LET a == InitTail(App)
       IN /\ isInitialized' = a.isInitialized
          /\ initTrace' = a.trace
          /\ last' = Run("applyTheme", appTheme, a.events)
    /\ UNCHANGED <<modResponsiveMenu, menuWiring>>
    /\ pc' = "ready"
    /\ UNCHANGED <<stored, sysDark, hasThemeEl, hasMenuEl, pageImports,
                   metaContent, aria, transitionOff, rafPending, btnActive,
                   animPending, modThemeToggle>>

-----------------------------------------------------------------------------
(* Callbacks of an initialised ThemeToggle.                                 *)

Listening == Idle /\ modThemeToggle

\* toggleTheme(): setTheme, then animateButton() adds the class and arms a
\* 300 ms timeout
DoToggleTheme(how) ==
    /\ UNCHANGED <<imageVars, menuVars, wiringVars>>
    /\ LET s == ToggleTheme(Page)
       IN /\ Commit(s)
          /\ last' = Run("toggleTheme", how, s.events)
    /\ btnActive' = TRUE
    /\ animPending' = TRUE
    /\ UNCHANGED <<sysDark, hasThemeEl, hasMenuEl, pageImports, transitionOff,
                   rafPending, pc, appTheme, isInitialized, modThemeToggle>>

\* click on #themeToggle
ClickToggle == Listening /\ DoToggleTheme("click")

\* keydown on document: Ctrl/Cmd + Shift + D toggles, any other key does not
KeyDown ==
    /\ Listening
    /\ \E shortcut \in BOOLEAN :
          IF shortcut THEN DoToggleTheme("keydown") ELSE UNCHANGED vars

\* setThemePublic(theme)
SetThemePublic ==
    /\ UNCHANGED <<imageVars, menuVars, wiringVars>>
    /\ Listening
    /\ \E theme \in ThemeInputs :
          LET s == SetTheme(Page, theme, TRUE)
          IN /\ Commit(s)
             /\ last' = Run("setThemePublic", theme, s.events)
    /\ UNCHANGED <<sysDark, hasThemeEl, hasMenuEl, pageImports, transitionOff,
                   rafPending, btnActive, animPending, pc, appTheme,
                   isInitialized, modThemeToggle>>

\* document.dispatchEvent(new CustomEvent('setTheme', {detail}))
SetThemeEvent ==
    /\ UNCHANGED <<imageVars, menuVars, wiringVars>>
    /\ Listening
    /\ \E detail \in EventDetails :
          LET s == OnSetThemeEvent(Page, detail)
          IN /\ Commit(s)
             /\ last' = Run("setThemeEvent", detail.theme, s.events)
    /\ UNCHANGED <<sysDark, hasThemeEl, hasMenuEl, pageImports, transitionOff,
                   rafPending, btnActive, animPending, pc, appTheme,
                   isInitialized, modThemeToggle>>

\* the system colour scheme flips; the media query's 'change' listener runs
\* if a ThemeToggle registered one
SystemPreferenceChange ==
    /\ UNCHANGED <<imageVars, menuVars, wiringVars>>
    /\ Idle
    /\ sysDark' = ~sysDark
    /\ IF modThemeToggle
       THEN LET s == OnSystemChange(Page, ~sysDark)
            IN /\ Commit(s)
               /\ last' = Run("systemChange",
                                 IF sysDark THEN LIGHT ELSE DARK, s.events)
       ELSE UNCHANGED <<dataTheme, stored, metaContent, aria, last>>
    /\ UNCHANGED <<hasThemeEl, hasMenuEl, pageImports, transitionOff,
                   rafPending, btnActive, animPending, pc, appTheme,
                   isInitialized, modThemeToggle>>

\* a caller invokes resetToSystemPreference()
ResetToSystemPreference ==
    /\ UNCHANGED <<imageVars, menuVars, wiringVars>>
    /\ Listening
    /\ LET s == ResetToSystem(Page, sysDark)
       IN /\ Commit(s)
          /\ last' = Run("resetToSystemPreference", Null, s.events)
    /\ UNCHANGED <<sysDark, hasThemeEl, hasMenuEl, pageImports, transitionOff,
                   rafPending, btnActive, animPending, pc, appTheme,
                   isInitialized, modThemeToggle>>

\* a 300 ms timeout of animateButton() fires; others may still be pending
AnimateTimeout ==
    /\ UNCHANGED <<imageVars, menuVars, wiringVars>>
    /\ Idle
    /\ animPending
    /\ btnActive' = FALSE
    /\ animPending' \in BOOLEAN
    /\ UNCHANGED <<stored, sysDark, hasThemeEl, hasMenuEl, pageImports, dataTheme,
                   metaContent, aria, transitionOff, rafPending, pc, appTheme,
                   isInitialized, modThemeToggle, last>>

\* an animation frame: the inner callback of applyThemeWithoutTransition
\* re-enables transitions
AnimationFrame ==
    /\ UNCHANGED <<imageVars, menuVars, wiringVars>>
    /\ Idle
    /\ rafPending > 0
    /\ rafPending' = rafPending - 1
    /\ transitionOff' = IF rafPending = 1 THEN FALSE ELSE transitionOff
    /\ UNCHANGED <<stored, sysDark, hasThemeEl, hasMenuEl, pageImports, dataTheme,
                   metaContent, aria, btnActive, animPending, pc, appTheme,
                   isInitialized, modThemeToggle, last>>

-----------------------------------------------------------------------------
(* imageLoader (src/unnamed/part_002), as functions over the loader state.  *)

\* The state the loader's functions read and write; events is the list of
\* events the running callback has dispatched so far.
Loader == [imgs |-> imgs, retryMap |-> retryMap, chains |-> chains,
           events |-> <<>>]

\* retryMap.delete(img)
MapDelete(m, i) == [j \in DOMAIN m \ {i} |-> m[j]]

\* retryMap.set(img, n)
MapSet(m, i, n) == [j \in DOMAIN m \cup {i} |-> IF j = i THEN n ELSE m[j]]

\* retryMap.get(img) || 0
MapGet(m, i) == IF i \in DOMAIN m THEN m[i] ELSE 0

\* retryMap.clear(), new Map()
EmptyMap == [j \in {} |-> 0]

\* A load chain: the attempts that follow one call of loadImage from outside
\* the retry timer.  attempts counts its calls of loadImage that started a
\* load, delay is the timeout armed after its latest failure (0 before the
\* first), srcset the data-srcset its attempt in flight captured.
NewChain(i, st) ==
    [img |-> i, phase |-> "loading", attempts |-> 1, delay |-> 0,
     srcset |-> st.imgs[i].dataSrcset]

\* The onerror callbacks a chain has received: every attempt but the one in
\* flight or the one that loaded.
Failures(chain) ==
    IF chain.phase \in {"loading", "loaded"} THEN chain.attempts - 1
    ELSE chain.attempts

\* loadImage(img), called for chain c, or for a new chain when c = 0
LoadImage(st, i, c) ==
    IF ~st.imgs[i].dataSrc
    THEN IF c = 0 THEN st ELSE [st EXCEPT !.chains[c].phase = "dropped"]
    ELSE LET marked == [st EXCEPT !.imgs[i].classes =
                                     (@ \ {placeholderClass}) \cup {loadingClass}]
         IN IF c = 0
            THEN [marked EXCEPT !.chains = Append(@, NewChain(i, st))]
            ELSE [marked EXCEPT !.chains[c].phase = "loading",
                                !.chains[c].attempts = @ + 1,
                                !.chains[c].srcset = st.imgs[i].dataSrcset]

\* handleImageLoaded(img, src, srcset), from the onload of chain c
HandleImageLoaded(st, c) ==
    LET i == st.chains[c].img
        srcset == st.chains[c].srcset
        img == st.imgs[i]
    IN [st EXCEPT
          !.imgs[i] = [img EXCEPT
                         !.src = "data-src",
                         !.srcset = IF srcset THEN TRUE ELSE @,
                         !.alt = IF img.dataAlt THEN "data-alt" ELSE @,
                         !.classes = (@ \ {loadingClass}) \cup {loadedClass},
                         !.dataSrc = FALSE,
                         !.dataSrcset = FALSE],
          !.retryMap = MapDelete(@, i),
          !.chains[c].phase = "loaded",
          !.events = Append(@, [type |-> "imageLoaded", img |-> i, retries |-> 0])]

\* handleImageError that gives up one retry early
HandleImageError_EarlyError(st, c) ==
    LET i == st.chains[c].img
        img == st.imgs[i]
        retries == MapGet(st.retryMap, i)
    IN IF retries < maxRetries - 1
       THEN [st EXCEPT
               !.retryMap = MapSet(@, i, retries + 1),
               !.chains[c].phase = "timer",
               !.chains[c].delay = retryDelay * (retries + 1)]
       ELSE [st EXCEPT
               !.imgs[i] = [img EXCEPT
                              !.classes = (@ \ {loadingClass}) \cup {errorClass},
                              !.src = IF img.fallback THEN "data-fallback" ELSE @,
                              !.alt = IF img.fallback THEN @
                                      ELSE "Error al cargar imagen"],
               !.events = Append(@, [type |-> "imageError", img |-> i,
                                     retries |-> retries]),
               !.retryMap = MapDelete(@, i),
               !.chains[c].phase = "error"]

\* handleImageError(img, src), from the onerror of chain c
HandleImageError(st, c) ==
    LET i == st.chains[c].img
        img == st.imgs[i]
        retries == MapGet(st.retryMap, i)
    IN IF retries < maxRetries
       THEN [st EXCEPT
               !.retryMap = MapSet(@, i, retries + 1),
               !.chains[c].phase = "timer",
               !.chains[c].delay = retryDelay * (retries + 1)]
       ELSE [st EXCEPT
               !.imgs[i] = [img EXCEPT
                              !.classes = (@ \ {loadingClass}) \cup {errorClass},
                              !.src = IF img.fallback THEN "data-fallback" ELSE @,
                              !.alt = IF img.fallback THEN @
                                      ELSE "Error al cargar imagen"],
               !.events = Append(@, [type |-> "imageError", img |-> i,
                                     retries |-> retries]),
               !.retryMap = MapDelete(@, i),
               !.chains[c].phase = "error"]

\* images.forEach(img => loadImage(img)) over the images in order
RECURSIVE LoadEach(_, _)
LoadEach(st, todo) ==
    IF todo = {} THEN st
    ELSE LET i == CHOOSE k \in todo : \A j \in todo : k <= j
         IN LoadEach(LoadImage(st, i, 0), todo \ {i})

\* Write a Loader state back to the variables.
CommitLoader(st) ==
    /\ imgs' = st.imgs
    /\ retryMap' = st.retryMap
    /\ chains' = st.chains
    /\ imgEvents' = st.events

\* img[data-src]
LazyImages(st) == {i \in Images : st.imgs[i].dataSrc}

\* The lazy images of a page as served.
HtmlImages ==
    [dataSrc : {TRUE}, dataSrcset : BOOLEAN, dataAlt : BOOLEAN,
     fallback : BOOLEAN, classes : {{}}, src : {""}, srcset : {FALSE},
     alt : {"", "texto"}]

ImageInit ==
    /\ imgs \in [Images -> HtmlImages]
    /\ retryMap = EmptyMap
    /\ observers = <<>>
    /\ imageObserver = 0
    /\ chains = <<>>
    /\ imgEvents = <<>>
    /\ cleaned = FALSE

\* initImageLoader(): a new IntersectionObserver replaces imageObserver (the
\* previous one, if any, keeps observing) and observeImages() marks and
\* observes every img[data-src].  Called when the module is evaluated, by
\* loadCoreModules and by loadPlaceholders().
InitImageLoader ==
    /\ UNCHANGED <<themeVars, menuVars>>
    /\ Len(observers) < MaxObservers
    /\ observers' = Append(observers, LazyImages(Loader))
    /\ imageObserver' = Len(observers) + 1
    /\ imgs' = [i \in Images |->
                  IF imgs[i].dataSrc
                  THEN [imgs[i] EXCEPT
                          !.classes = @ \cup {placeholderClass},
                          !.alt = IF @ = "" THEN "Imagen cargando..." ELSE @]
                  ELSE imgs[i]]
    /\ imgEvents' = <<>>
    /\ cleaned' = FALSE
    /\ UNCHANGED <<retryMap, chains>>

\* handleIntersection: observer o reports image i as intersecting; the image
\* is loaded and unobserved.  Entries that are not intersecting do nothing.
HandleIntersection ==
    \E o \in 1..Len(observers) : \E i \in observers[o] :
        /\ UNCHANGED <<themeVars, menuVars>>
        /\ imgs[i].dataSrc => Len(chains) < MaxChains
        /\ CommitLoader(LoadImage(Loader, i, 0))
        /\ observers' = [observers EXCEPT ![o] = @ \ {i}]
        /\ UNCHANGED <<imageObserver, cleaned>>

\* loadImagesInContainer(selector) for a container holding the images in
\* inside; a selector that matches nothing only warns
LoadImagesInContainer ==
    \E inside \in SUBSET Images :
        LET lazy == inside \cap LazyImages(Loader)
        IN /\ UNCHANGED <<themeVars, menuVars>>
           /\ Len(chains) + Cardinality(lazy) <= MaxChains
           /\ CommitLoader(LoadEach(Loader, lazy))
           /\ cleaned' = FALSE
           /\ UNCHANGED <<observers, imageObserver>>

\* tempImage.onload of the attempt in flight of chain c
ImageLoads ==
    \E c \in 1..Len(chains) :
        /\ UNCHANGED <<themeVars, menuVars>>
        /\ chains[c].phase = "loading"
        /\ CommitLoader(HandleImageLoaded(Loader, c))
        /\ UNCHANGED <<observers, imageObserver, cleaned>>

\* tempImage.onerror of the attempt in flight of chain c
ImageFails ==
    \E c \in 1..Len(chains) :
        /\ UNCHANGED <<themeVars, menuVars>>
        /\ chains[c].phase = "loading"
        /\ CommitLoader(HandleImageError(Loader, c))
        /\ UNCHANGED <<observers, imageObserver, cleaned>>

\* the retry timeout of chain c fires: loadImage(img).  Network latency is
\* arbitrary, so timers of different chains may fire in any order.
RetryTimer ==
    \E c \in 1..Len(chains) :
        /\ UNCHANGED <<themeVars, menuVars>>
        /\ chains[c].phase = "timer"
        /\ chains[c].attempts < MaxAttempts
        /\ CommitLoader(LoadImage(Loader, chains[c].img, c))
        /\ UNCHANGED <<observers, imageObserver, cleaned>>

\* cleanup(): disconnects the current observer, if any, and clears retryMap
Cleanup ==
    /\ UNCHANGED <<themeVars, menuVars>>
    /\ observers' = IF imageObserver # 0
                    THEN [observers EXCEPT ![imageObserver] = {}]
                    ELSE observers
    /\ imageObserver' = 0
    /\ retryMap' = EmptyMap
    /\ imgEvents' = <<>>
    /\ cleaned' = TRUE
    /\ UNCHANGED <<imgs, chains>>

ImageNext ==
    \/ InitImageLoader
    \/ HandleIntersection
    \/ LoadImagesInContainer
    \/ ImageLoads
    \/ ImageFails
    \/ RetryTimer
    \/ Cleanup

\* The page before any script ran, loader side.
ImageStart == ImageInit /\ \A i \in Images :
                 imgs[i] = [dataSrc |-> TRUE, dataSrcset |-> FALSE, dataAlt |-> FALSE,
                            fallback |-> FALSE, classes |-> {}, src |-> "",
                            srcset |-> FALSE, alt |-> ""]

-----------------------------------------------------------------------------
(* ResponsiveMenu (src/unnamed/part_000), as functions over the part of the *)
(* page the menus touch.  Every ResponsiveMenu instance registers its own   *)
(* listeners on the same elements; a DOM event runs them in the order the   *)
(* instances were constructed.                                              *)

\* The state the methods and listeners read and write.  prevented records
\* e.preventDefault() of the event being dispatched.
MenuPage == [menus |-> menus, dom |-> menuDom, focus |-> focus,
             focusTimers |-> focusTimers, prevented |-> FALSE]

\* The page's tab order: the toggle button, the focusable elements of
\* #navMenu (its .nav-link anchors), the rest of the page.
ToggleEl == 0
FirstItem == 1
LastItem == numItems
Outside == numItems + 1
MenuItems == 1..numItems

\* The menu as openMenu() and closeMenu() leave it.
DomOpen == [navActive |-> TRUE, bodyMenuOpen |-> TRUE, ariaExpanded |-> "true",
            ariaLabel |-> CloseLabel, overflow |-> "hidden"]
DomClosed == [navActive |-> FALSE, bodyMenuOpen |-> FALSE, ariaExpanded |-> "false",
              ariaLabel |-> OpenLabel, overflow |-> ""]

\* A ResponsiveMenu as its constructor leaves it: ready when both elements
\* were found and init() registered the listeners.  acted and checks are
\* observations: acted, whether the instance has run openMenu or closeMenu;
\* checks, the resize checks it has run since the last resize event it heard
\* (-1 before the first).
NewMenu(found) == [ready |-> found, isOpen |-> FALSE, acted |-> FALSE,
                   resizeTimers |-> <<>>, checks |-> -1]

\* focusFirstMenuItem(): a 100 ms timeout when the menu has a .nav-link
FocusFirstMenuItem(s) ==
    IF numItems > 0 THEN [s EXCEPT !.focusTimers = Append(@, FocusTicks)] ELSE s

\* openMenu()
OpenMenu(s, k) ==
    LET s1 == [s EXCEPT !.menus[k].isOpen = TRUE, !.menus[k].acted = TRUE]
        s2 == [s1 EXCEPT !.dom.navActive = TRUE, !.dom.bodyMenuOpen = TRUE]
        s3 == [s2 EXCEPT !.dom.ariaExpanded = "true", !.dom.ariaLabel = CloseLabel]
        s4 == [s3 EXCEPT !.dom.overflow = "hidden"]
    IN FocusFirstMenuItem(s4)

\* closeMenu()
CloseMenu(s, k) ==
    LET s1 == [s EXCEPT !.menus[k].isOpen = FALSE, !.menus[k].acted = TRUE]
        s2 == [s1 EXCEPT !.dom.navActive = FALSE, !.dom.bodyMenuOpen = FALSE]
        s3 == [s2 EXCEPT !.dom.ariaExpanded = "false", !.dom.ariaLabel = OpenLabel]
    IN [s3 EXCEPT !.dom.overflow = ""]

\* toggleMenu() that opens whatever the flag says
ToggleMenu_AlwaysOpens(s, k) == OpenMenu(s, k)

\* toggleMenu()
ToggleMenu(s, k) ==
    IF s.menus[k].isOpen THEN CloseMenu(s, k) ELSE OpenMenu(s, k)

\* getState()
GetState(s, k) == s.menus[k].isOpen

\* destroy(): closes the menu if it is open; the listeners stay registered
Destroy(s, k) == IF s.menus[k].isOpen THEN CloseMenu(s, k) ELSE s

\* click listener of #menuToggle: e.stopPropagation(); this.toggleMenu()
OnToggleClick(s, k, e) == ToggleMenu(s, k)

\* click listener of a .nav-link that closes the menu at any width
OnLinkClick_AnyWidth(s, k, e) == CloseMenu(s, k)

\* click listener of a .nav-link
OnLinkClick(s, k, e) ==
    IF e.width < desktopBreakpoint THEN CloseMenu(s, k) ELSE s

\* click listener of document without the test of the click's target
OnDocumentClick_AnyTarget(s, k, e) ==
    IF ~s.menus[k].isOpen THEN s ELSE CloseMenu(s, k)

\* click listener of document (setupOutsideClickListener)
OnDocumentClick(s, k, e) ==
    IF ~s.menus[k].isOpen THEN s
    ELSE IF e.target = "toggle" \/ e.target = "menu" THEN s
    ELSE CloseMenu(s, k)

\* resize listener that arms a new timeout without clearing the pending one
OnResize_NoClear(s, k, e) ==
    [s EXCEPT !.menus[k].resizeTimers = Append(@, DebounceTicks),
              !.menus[k].checks = 0]

\* resize listener: clearTimeout(resizeTimer); resizeTimer = setTimeout(.., 150)
OnResize(s, k, e) ==
    [s EXCEPT !.menus[k].resizeTimers = <<DebounceTicks>>,
              !.menus[k].checks = 0]

\* the resize timeout's callback
OnResizeTimer(s, k, e) ==
    LET s1 == [s EXCEPT !.menus[k].resizeTimers = Tail(@),
                        !.menus[k].checks = @ + 1]
    IN IF e.width >= desktopBreakpoint /\ s1.menus[k].isOpen
       THEN CloseMenu(s1, k) ELSE s1

\* keydown listener of setupKeyboardListeners that leaves the focus alone
OnEscape_NoFocus(s, k, e) ==
    IF e.key = "Escape" /\ s.menus[k].isOpen THEN CloseMenu(s, k) ELSE s

\* keydown listener of setupKeyboardListeners
OnEscape(s, k, e) ==
    IF e.key = "Escape" /\ s.menus[k].isOpen
    THEN [CloseMenu(s, k) EXCEPT !.focus = ToggleEl]
    ELSE s

\* keydown listener of setupFocusTrap that only wraps forwards
OnTab_ForwardOnly(s, k, e) ==
    IF ~s.menus[k].isOpen \/ e.key # "Tab" THEN s
    ELSE IF numItems = 0 THEN s
    ELSE IF ~e.shiftKey /\ s.focus = LastItem
         THEN [s EXCEPT !.prevented = TRUE, !.focus = FirstItem]
    ELSE s

\* keydown listener of setupFocusTrap
OnTab(s, k, e) ==
    IF ~s.menus[k].isOpen \/ e.key # "Tab" THEN s
    ELSE IF numItems = 0 THEN s
    ELSE IF e.shiftKey /\ s.focus = FirstItem
         THEN [s EXCEPT !.prevented = TRUE, !.focus = LastItem]
    ELSE IF ~e.shiftKey /\ s.focus = LastItem
         THEN [s EXCEPT !.prevented = TRUE, !.focus = FirstItem]
    ELSE s

\* One listener of instance k.
Listener(name, s, k, e) ==
    CASE name = "toggleClick" -> OnToggleClick(s, k, e)
      [] name = "linkClick" -> OnLinkClick(s, k, e)
      [] name = "documentClick" -> OnDocumentClick(s, k, e)
      [] name = "resize" -> OnResize(s, k, e)
      [] name = "escape" -> OnEscape(s, k, e)
      [] name = "tab" -> OnTab(s, k, e)

\* An event reaches the listeners of that name of every ready instance from
\* instance k on, in the order of registration.
RECURSIVE DispatchFrom(_, _, _, _)
DispatchFrom(name, s, k, e) ==
    IF k > Len(s.menus) THEN s
    ELSE DispatchFrom(name,
                      IF s.menus[k].ready THEN Listener(name, s, k, e) ELSE s,
                      k + 1, e)

Dispatch(name, s, e) == DispatchFrom(name, s, 1, e)

\* The browser's default action of Tab / Shift+Tab: the next / previous
\* element of the tab order, unless a listener called preventDefault().
TabDefault(s, e) ==
    IF s.prevented THEN s
    ELSE [s EXCEPT !.focus = IF e.shiftKey THEN (s.focus + Outside) % (Outside + 1)
                                           ELSE (s.focus + 1) % (Outside + 1)]

\* An event object.
Event(key, shiftKey, target) ==
    [key |-> key, shiftKey |-> shiftKey, target |-> target, width |-> width]

\* Bookkeeping: which of the handlers the properties below talk about ran
\* last, on which instance (0 for a DOM event), whether some instance had its
\* flag up and where the focus was (Tab only) when it started, and
\* whether it repeats the call before it.  A handler no property talks
\* about leaves NoMenuRun.
AnyOpen == \E k \in 1..Len(menus) : menus[k].ready /\ menus[k].isOpen

MenuRun(op, k, preFocus) ==
    [op |-> op, k |-> k, wasOpen |-> AnyOpen, preFocus |-> preFocus,
     repeated |-> (k # 0 /\ mlast.op = op /\ mlast.k = k)]

NoMenuRun == [op |-> "none", k |-> 0, wasOpen |-> FALSE, preFocus |-> -1,
              repeated |-> FALSE]

\* Write a MenuPage back to the variables.
CommitMenu(s) ==
    /\ menus' = s.menus
    /\ menuDom' = s.dom
    /\ focus' = s.focus
    /\ focusTimers' = s.focusTimers

\* The markup of #menuToggle and <body> as served: without ARIA attributes,
\* or with those of a closed menu.
HtmlMenuDom ==
    {[DomClosed EXCEPT !.ariaExpanded = Null, !.ariaLabel = Null], DomClosed}

MenuInit ==
    /\ hasNavMenu \in BOOLEAN
    /\ numItems \in 0..MaxItems
    /\ menus = <<>>
    /\ menuDom \in HtmlMenuDom
    /\ focus = Outside
    /\ width \in Widths
    /\ focusTimers = <<>>
    /\ sinceResize = DebounceTicks + 1
    /\ mlast = NoMenuRun

\* The page before the menu script ran, menu side.
MenuStart == MenuInit /\ ~hasNavMenu /\ numItems = 0 /\ menuDom = DomClosed
             /\ width = desktopBreakpoint

\* ResponsiveMenu.js is evaluated: its auto-initialisation constructs
\* window.responsiveMenu when both elements exist (part_000:288-300); when
\* the module was imported by loadCoreModules of js/main.js, which happens
\* only if #menuToggle exists, that then constructs modules.responsiveMenu.
\* A page served with the copy part_003 loads the module by itself.
AutoInit(ms) == IF hasMenuEl /\ hasNavMenu THEN Append(ms, NewMenu(TRUE)) ELSE ms

WiredNew(ms) == IF menuWiring /\ hasMenuEl
                THEN Append(ms, NewMenu(hasMenuEl /\ hasNavMenu)) ELSE ms

LoadResponsiveMenu ==
    /\ menus = <<>>
    /\ WiredNew(AutoInit(<<>>)) # <<>>
    /\ menus' = WiredNew(AutoInit(<<>>))
    /\ mlast' = NoMenuRun
    /\ UNCHANGED <<hasNavMenu, numItems, menuDom, focus, width, focusTimers,
                   sinceResize>>
    /\ UNCHANGED <<themeVars, imageVars>>

ReadyMenus == {k \in 1..Len(menus) : menus[k].ready}

\* Frame of the actions below.
MenuFrame == UNCHANGED <<hasNavMenu, numItems>> /\ UNCHANGED <<themeVars, imageVars>>

\* click on #menuToggle: the button takes the focus, every instance's
\* listener toggles, stopPropagation keeps the event from document
ClickMenuToggle ==
    /\ hasMenuEl
    /\ LET s == Dispatch("toggleClick", [MenuPage EXCEPT !.focus = ToggleEl],
                         Event("", FALSE, "toggle"))
       IN /\ Len(s.focusTimers) <= MaxFocusTimers
          /\ CommitMenu(s)
    /\ mlast' = NoMenuRun
    /\ UNCHANGED <<width, sinceResize>>
    /\ MenuFrame

\* click on the j-th .nav-link: the link's listeners, then document's
ClickNavLink ==
    /\ hasNavMenu
    /\ \E j \in MenuItems :
       LET e == Event("", FALSE, "menu")
           s == Dispatch("documentClick",
                         Dispatch("linkClick", [MenuPage EXCEPT !.focus = j], e), e)
       IN CommitMenu(s)
    /\ mlast' = MenuRun("clickLink", 0, -1)
    /\ UNCHANGED <<width, sinceResize>>
    /\ MenuFrame

\* click somewhere else: inside #navMenu but not on a link, or outside both
\* the menu and the button; document's listeners run
ClickDocument ==
    /\ \E target \in {"menu", "outside"} :
          /\ target = "menu" => hasNavMenu
          /\ LET s == Dispatch("documentClick", [MenuPage EXCEPT !.focus = Outside],
                               Event("", FALSE, target))
             IN CommitMenu(s)
          /\ mlast' = MenuRun(IF target = "menu" THEN "clickMenu"
                                                ELSE "clickOutside", 0, -1)
    /\ UNCHANGED <<width, sinceResize>>
    /\ MenuFrame

\* the window is resized to width w: a resize event
ResizeWindow ==
    /\ width' \in Widths
    /\ sinceResize' = 0
    /\ LET s == Dispatch("resize", MenuPage, Event("", FALSE, "window"))
       IN CommitMenu(s)
    /\ mlast' = NoMenuRun
    /\ MenuFrame

\* a resize timeout of instance k is due: its callback runs
ResizeTimer ==
    /\ \E k \in ReadyMenus :
          /\ menus[k].resizeTimers # <<>>
          /\ Head(menus[k].resizeTimers) = 0
          /\ CommitMenu(OnResizeTimer(MenuPage, k, Event("", FALSE, "window")))
          /\ mlast' = MenuRun("resizeCheck", k, -1)
    /\ UNCHANGED <<width, sinceResize>>
    /\ MenuFrame

\* keydown of Escape on document
KeyEscape ==
    /\ CommitMenu(Dispatch("escape", MenuPage, Event("Escape", FALSE, "document")))
    /\ mlast' = MenuRun("escape", 0, -1)
    /\ UNCHANGED <<width, sinceResize>>
    /\ MenuFrame

\* keydown of Tab or Shift+Tab on document, then the default action
KeyTab ==
    /\ \E shiftKey \in BOOLEAN :
          /\ LET e == Event("Tab", shiftKey, "document")
             IN CommitMenu(TabDefault(Dispatch("tab", MenuPage, e), e))
          /\ mlast' = IF shiftKey THEN MenuRun("shiftTab", 0, -1)
                                   ELSE MenuRun("tab", 0, focus)
    /\ UNCHANGED <<width, sinceResize>>
    /\ MenuFrame

\* a timeout of focusFirstMenuItem is due: firstLink.focus()
FocusTimer ==
    /\ focusTimers # <<>>
    /\ Head(focusTimers) = 0
    /\ focus' = FirstItem
    /\ focusTimers' = Tail(focusTimers)
    /\ mlast' = NoMenuRun
    /\ UNCHANGED <<menus, menuDom, width, sinceResize>>
    /\ MenuFrame

\* TickMs milliseconds pass; a timeout that is due runs before time goes on
RECURSIVE Elapse(_)
Elapse(timers) ==
    IF timers = <<>> THEN <<>> ELSE <<Head(timers) - 1>> \o Elapse(Tail(timers))

TimerDue ==
    \/ focusTimers # <<>> /\ Head(focusTimers) = 0
    \/ \E k \in ReadyMenus : menus[k].resizeTimers # <<>>
                             /\ Head(menus[k].resizeTimers) = 0

MenuTick ==
    /\ ~TimerDue
    /\ focusTimers # <<>> \/ sinceResize <= DebounceTicks
    /\ focusTimers' = Elapse(focusTimers)
    /\ menus' = [k \in 1..Len(menus) |->
                   [menus[k] EXCEPT !.resizeTimers = Elapse(@)]]
    /\ sinceResize' = IF sinceResize <= DebounceTicks THEN sinceResize + 1
                      ELSE sinceResize
    /\ UNCHANGED <<menuDom, focus, width, mlast>>
    /\ MenuFrame

\* a script calls a public method of instance k
CallMethod(op, s, k) ==
    /\ Len(s.focusTimers) <= MaxFocusTimers
    /\ CommitMenu(s)
    /\ mlast' = IF op = "toggleMenu" THEN MenuRun(op, k, -1) ELSE NoMenuRun
    /\ UNCHANGED <<width, sinceResize>>
    /\ MenuFrame

CallToggleMenu == \E k \in ReadyMenus : CallMethod("toggleMenu", ToggleMenu(MenuPage, k), k)

CallOpenMenu == \E k \in ReadyMenus : CallMethod("openMenu", OpenMenu(MenuPage, k), k)

CallCloseMenu == \E k \in ReadyMenus : CallMethod("closeMenu", CloseMenu(MenuPage, k), k)

CallDestroy == \E k \in ReadyMenus : CallMethod("destroy", Destroy(MenuPage, k), k)

MenuNext ==
    \/ LoadResponsiveMenu
    \/ ClickMenuToggle
    \/ ClickNavLink
    \/ ClickDocument
    \/ ResizeWindow
    \/ ResizeTimer
    \/ KeyEscape
    \/ KeyTab
    \/ FocusTimer
    \/ MenuTick
    \/ CallToggleMenu
    \/ CallOpenMenu
    \/ CallCloseMenu
    \/ CallDestroy

-----------------------------------------------------------------------------
ThemeNext ==
    \/ Reload
    \/ AppConstructor
    \/ LoadCoreTheme
    \/ ThemeToggleConstructor
    \/ LoadCoreMenu
    \/ MenuConstructor
    \/ LoadPageModules
    \/ PageModuleLoaded
    \/ ImportRejected
    \/ FinishInit
    \/ ClickToggle
    \/ KeyDown
    \/ SetThemePublic
    \/ SetThemeEvent
    \/ SystemPreferenceChange
    \/ ResetToSystemPreference
    \/ AnimateTimeout
    \/ AnimationFrame

\* A page load followed by the callbacks of the theme subsystem.
InitTheme == ThemeInit /\ menuWiring /\ ImageStart /\ MenuStart

\* The same, for a page served with either copy of main.js.
InitApp == ThemeInit /\ ImageStart /\ MenuStart

SpecApp == InitApp /\ [][ThemeNext]_vars

SpecTheme == InitTheme /\ [][ThemeNext]_vars

\* A page load followed by the callbacks of the image loader.
InitImage == ThemeStart /\ ImageInit /\ MenuStart

SpecImage == InitImage /\ [][ImageNext]_vars

\* A page with or without the menu's elements, served with either copy of
\* main.js, followed by the callbacks of the menu.
MenuPageStart == ThemeInit /\ stored = Null /\ ~sysDark /\ ~hasThemeEl
                 /\ ~pageImports /\ dataTheme = Null /\ metaContent = Null

InitMenu == MenuPageStart /\ ImageStart /\ MenuInit

SpecMenu == InitMenu /\ [][MenuNext]_vars

-----------------------------------------------------------------------------
(* Properties of the theme subsystem, checked under SpecTheme.              *)

\* The step just taken ran the recorded handler (a handler run that changes
\* nothing and repeats the previous record is a stuttering step).
Ran(op) == last'.op = op /\ last' # last

SystemTheme == IF sysDark THEN DARK ELSE LIGHT

\* The last recorded run was a toggleTheme(), or a setTheme(t) with t a
\* theme and default saving.
SavedATheme ==
    \/ last.op = "toggleTheme"
    \/ last.op \in {"setThemePublic", "setThemeEvent"} /\ last.arg \in Themes

\* C3 - theme persistence round trip: after a toggleTheme() or a saving
\* setTheme(t), t a theme, localStorage 'theme' equals data-theme; and a
\* ThemeToggle initialised on the next page load, after a page was left with
\* its theme stored, selects that theme whatever the system preference is.
ThemeRoundTrip ==
    /\ [](SavedATheme =>
            /\ stored = dataTheme
            /\ \A prefersDark \in BOOLEAN :
                  GetInitialTheme(stored, prefersDark) = dataTheme)
    /\ [][(/\ last.op = "reload"
           /\ last.preTheme \in Themes
           /\ last.preStored = last.preTheme
           /\ Ran("initialize")) => dataTheme' = last.preTheme]_vars

\* A ThemeToggle was initialised with 'dark' stored and a light system, and
\* shows dark.
ThemeRoundTripWitness ==
    /\ last.op = "initialize"
    /\ last.preStored = DARK
    /\ ~sysDark
    /\ dataTheme = DARK
    /\ stored = DARK

\* C4 - initial theme priority: getInitialTheme returns the stored value if
\* it is exactly 'light' or 'dark', otherwise 'dark' if the system prefers
\* dark, otherwise 'light'; initialize() applies it.
InitialThemePriority ==
    last.op = "initialize" =>
        /\ last.arg = (IF last.preStored \in Themes THEN last.preStored
                       ELSE IF sysDark THEN DARK ELSE LIGHT)
        /\ dataTheme = last.arg

\* A foreign stored value was ignored in favour of a dark system preference.
InitialThemePriorityWitness ==
    /\ last.op = "initialize"
    /\ last.preStored = ForeignTheme
    /\ sysDark
    /\ last.arg = DARK

\* C5 - once the app or a ThemeToggle is initialised, data-theme is 'light'
\* or 'dark'.
ThemeIsLightOrDark ==
    (isInitialized \/ modThemeToggle) => dataTheme \in Themes

\* The last two recorded runs were toggleTheme calls.
ToggledTwice == last.op = "toggleTheme" /\ last.repeated

\* C6 (as claimed) - toggleTheme turns light into dark and dark into light,
\* and two consecutive toggles restore data-theme and the stored value.
ToggleTwiceRestoresAll ==
    /\ (last.op = "toggleTheme" /\ last.preTheme = LIGHT) => dataTheme = DARK
    /\ (last.op = "toggleTheme" /\ last.preTheme = DARK) => dataTheme = LIGHT
    /\ ToggledTwice => /\ dataTheme = last.prevTheme
                       /\ stored = last.prevStored

\* C6 (amended) - toggleTheme turns light into dark and dark into light; two
\* consecutive toggles that started from 'light' or 'dark' restore
\* data-theme and leave localStorage 'theme' equal to it.
ToggleTwiceRestoresTheme ==
    /\ (last.op = "toggleTheme" /\ last.preTheme = LIGHT) => dataTheme = DARK
    /\ (last.op = "toggleTheme" /\ last.preTheme = DARK) => dataTheme = LIGHT
    /\ (ToggledTwice /\ last.prevTheme \in Themes) =>
          /\ dataTheme = last.prevTheme
          /\ stored = last.prevTheme

\* Two toggles ran on a page that showed 'dark' with nothing stored: it is
\* dark again, and 'dark' is stored now.
ToggleTwiceWitness ==
    /\ ToggledTwice
    /\ last.prevTheme = DARK
    /\ last.prevStored = Null
    /\ dataTheme = DARK
    /\ stored = DARK

\* C7 - setTheme with a value that is not a theme, directly or through the
\* 'setTheme' event, changes nothing and dispatches nothing.
InvalidThemeRejected ==
    [][((Ran("setThemePublic") \/ Ran("setThemeEvent")) /\ last'.arg \notin Themes) =>
          /\ UNCHANGED <<dataTheme, stored, metaContent, aria>>
          /\ last'.events = <<>>]_vars

\* A 'setTheme' event carrying a foreign theme arrived on a dark page.
InvalidThemeRejectedWitness ==
    /\ last.op = "setThemeEvent"
    /\ last.arg = ForeignTheme
    /\ last.preTheme = DARK
    /\ dataTheme = DARK

ResetFollowsSystem ==
    last.op = "resetToSystemPreference" =>
        /\ stored = Null
        /\ dataTheme = SystemTheme

\* A reset ran with 'light' stored on a dark system.
ResetFollowsSystemWitness ==
    /\ last.op = "resetToSystemPreference"
    /\ last.preStored = LIGHT
    /\ sysDark
    /\ dataTheme = DARK
    /\ stored = Null

\* The last recorded run called setTheme with a theme.
CalledSetTheme ==
    \/ last.op \in {"initialize", "toggleTheme", "resetToSystemPreference"}
    \/ last.op \in {"setThemePublic", "setThemeEvent"} /\ last.arg \in Themes
    \/ last.op = "systemChange" /\ ~Truthy(last.preStored)

\* C10 - a successful setTheme dispatches exactly one themeChanged event,
\* carrying the theme just applied, after data-theme and localStorage were
\* updated.
OneThemeChangedAfterUpdate ==
    CalledSetTheme =>
        last.events = <<[type |-> "themeChanged", theme |-> dataTheme,
                         seenTheme |-> dataTheme, seenStored |-> stored]>>

\* A toggle from light dispatched its event with 'dark' applied and stored.
OneThemeChangedWitness ==
    /\ last.op = "toggleTheme"
    /\ last.preTheme = LIGHT
    /\ last.preStored = LIGHT
    /\ Len(last.events) = 1
    /\ last.events[1].seenStored = DARK

-----------------------------------------------------------------------------
(* Properties of the orchestrator, checked under SpecApp.                   *)

\* C18 - conditional wiring: once init() has completed, modules.themeToggle
\* is set iff #themeToggle exists and modules.responsiveMenu is set iff
\* #menuToggle exists.
WiringMatchesElements ==
    isInitialized =>
        /\ modThemeToggle <=> hasThemeEl
        /\ modResponsiveMenu <=> hasMenuEl

\* The steps of init() before it marks the app as initialised.
StepsBeforeInitialized ==
    <<"loadCoreModules", "loadPageModules", "initGlobalListeners", "applyTheme">>

\* C19 - initialisation order: isInitialized is true, and appInitialized is
\* dispatched, at most once per init, only after loadCoreModules,
\* loadPageModules, initGlobalListeners and applyTheme completed in that
\* order; a listener of appInitialized never sees isInitialized false.
InitInOrder ==
    /\ isInitialized => initTrace = Append(StepsBeforeInitialized, "appInitialized")
    /\ ~isInitialized =>
          /\ \A n \in 1..Len(initTrace) : initTrace[n] # "appInitialized"
          /\ \A n \in 1..Len(initTrace) : initTrace[n] = StepsBeforeInitialized[n]
    /\ \A n \in 1..Len(last.events) :
          last.events[n].type = "appInitialized" =>
              /\ last.events[n].seenInitialized
              /\ last.events[n].seenTrace = StepsBeforeInitialized
              /\ Len(last.events) = 1

\* init() went through both imports of loadCoreModules and completed.
InitInOrderWitness ==
    /\ isInitialized
    /\ modThemeToggle
    /\ modResponsiveMenu
    /\ last.op = "applyTheme"
    /\ Len(last.events) = 1
    /\ last.events[1].type = "appInitialized"

-----------------------------------------------------------------------------
(* Properties of the image loader, checked under SpecImage.                 *)

\* C1 - bounded retry: a chain none of whose attempts loaded makes at most
\* 1 + maxRetries attempts, and once it has failed 1 + maxRetries times the
\* image is marked image-error and no retry of the chain is pending.
BoundedRetry ==
    \A c \in 1..Len(chains) :
        chains[c].phase # "loaded" =>
            /\ chains[c].attempts <= 1 + maxRetries
            /\ Failures(chains[c]) = 1 + maxRetries =>
                  /\ chains[c].phase = "error"
                  /\ errorClass \in imgs[chains[c].img].classes

\* C2 - linear backoff: the timeout a chain arms after its k-th failure,
\* before its k-th retry, is retryDelay * k.
LinearBackoff ==
    \A c \in 1..Len(chains) :
        chains[c].phase = "timer" =>
            chains[c].delay = retryDelay * Failures(chains[c])

\* The attempt in flight of chain c fails in this transition.
FailsNow(c) ==
    /\ chains[c].phase = "loading"
    /\ chains'[c].phase \in {"timer", "error"}

\* C20 - definitive failure: a failure that finds the image's retry counter
\* at maxRetries removes image-loading, adds image-error, sets src to the
\* data-fallback if there is one and the alt text otherwise, dispatches one
\* imageError with detail.retries = maxRetries and removes the counter; a
\* failure that finds the counter lower dispatches no imageError.
DefinitiveFailure ==
    /\ [](\A n \in 1..Len(imgEvents) :
            imgEvents[n].type = "imageError" =>
                LET img == imgs[imgEvents[n].img]
                IN /\ imgEvents[n].retries = maxRetries
                   /\ Len(imgEvents) = 1
                   /\ loadingClass \notin img.classes
                   /\ errorClass \in img.classes
                   /\ imgEvents[n].img \notin DOMAIN retryMap
                   /\ img.fallback => img.src = "data-fallback"
                   /\ ~img.fallback => img.alt = "Error al cargar imagen")
    /\ [][\A c \in 1..Len(chains) :
            FailsNow(c) =>
                IF MapGet(retryMap, chains[c].img) >= maxRetries
                THEN /\ imgEvents' = <<[type |-> "imageError", img |-> chains[c].img,
                                        retries |-> maxRetries]>>
                     /\ chains'[c].phase = "error"
                ELSE /\ imgEvents' = <<>>
                     /\ chains'[c].phase = "timer"]_vars

\* A chain failed for good on an image that has a data-fallback.
DefinitiveFailureWitness ==
    /\ Len(imgEvents) = 1
    /\ imgEvents[1].type = "imageError"
    /\ imgs[imgEvents[1].img].fallback
    /\ imgs[imgEvents[1].img].src = "data-fallback"
    /\ \E c \in 1..Len(chains) : chains[c].phase = "error"

\* Some IntersectionObserver created by initImageLoader still has targets.
StillObserving == \E o \in 1..Len(observers) : observers[o] # {}

\* This transition starts a load attempt: a new chain, or one more attempt of
\* a chain.
StartsLoad ==
    \/ Len(chains') > Len(chains)
    \/ \E c \in 1..Len(chains) : chains'[c].attempts > chains[c].attempts

\* C21 - cleanup() cleans resources and observers: when cleanup() returns
\* the retry map is empty, and from then until initImageLoader,
\* loadPlaceholders or loadImagesInContainer is called no observer created by
\* an earlier initImageLoader is observing an image and no load attempt is
\* started, not even by a retry timer that was pending.
CleanupStopsLoader ==
    /\ [](cleaned => ~StillObserving)
    /\ [][Cleanup => retryMap' = EmptyMap]_vars
    /\ [][(cleaned /\ cleaned') => ~StartsLoad]_vars

-----------------------------------------------------------------------------
(* Properties of the responsive menu, checked under SpecMenu.  "The menu is *)
(* open" is the flag of an instance: its listeners test this.isOpen.        *)

\* The flag of instance k agrees with the classes, aria-expanded and the
\* body's overflow.
MenuConsistent(k) ==
    /\ menus[k].isOpen <=> menuDom.navActive
    /\ menus[k].isOpen <=> menuDom.bodyMenuOpen
    /\ menus[k].isOpen <=> (menuDom.ariaExpanded = "true")
    /\ menus[k].isOpen <=> (menuDom.overflow = "hidden")

\* C11 - menu state consistency: for every instance whose elements were
\* found, once it has run openMenu or closeMenu, after every handler isOpen
\* holds iff #navMenu is active iff body is menu-open iff aria-expanded is
\* 'true' iff the body's overflow is 'hidden'.
MenuStateConsistent ==
    \A k \in ReadyMenus : menus[k].acted => MenuConsistent(k)

\* What the flag of instance k stands for on the page.
DomOf(isOpen) == IF isOpen THEN DomOpen ELSE DomClosed

Records(op) == mlast'.op = op

\* No ready instance has its flag up after the transition.
AllClosedNext == \A k \in ReadyMenus : ~menus'[k].isOpen

\* The transition changes neither a flag nor the page's menu state.
MenuUntouched ==
    /\ menuDom' = menuDom
    /\ \A k \in ReadyMenus : menus'[k].isOpen = menus[k].isOpen

\* C13 - a click on a nav link closes the menu below the desktop breakpoint
\* and leaves it as it is at the breakpoint or above.
LinkClickClosesOnMobile ==
    [][(Records("clickLink") /\ ClickNavLink /\ ReadyMenus # {}) =>
          IF width < desktopBreakpoint
          THEN menuDom' = DomClosed /\ AllClosedNext
          ELSE MenuUntouched]_vars

\* A link of an open menu was clicked on a narrow window.
LinkClickWitness ==
    /\ mlast.op = "clickLink"
    /\ mlast.wasOpen
    /\ width < desktopBreakpoint
    /\ menuDom = DomClosed
    /\ ~AnyOpen

\* C14 - a click outside the button and the menu closes an open menu; the
\* outside-click listener never closes it for a target inside the button or
\* the menu; with the menu closed an outside click changes nothing.
OutsideClickCloses ==
    /\ [](\A k \in ReadyMenus : \A target \in {"toggle", "menu"} :
             OnDocumentClick(MenuPage, k, Event("", FALSE, target)) = MenuPage)
    /\ [][((Records("clickOutside") \/ Records("clickMenu")) /\ ClickDocument) =>
            /\ (mlast'.op = "clickOutside" /\ (AnyOpen \/ menuDom.navActive)) =>
                  menuDom' = DomClosed /\ AllClosedNext
            /\ mlast'.op = "clickMenu" => MenuUntouched
            /\ ~AnyOpen => MenuUntouched]_vars

\* An open menu was closed by a click outside.
OutsideClickWitness ==
    /\ mlast.op = "clickOutside"
    /\ mlast.wasOpen
    /\ menuDom = DomClosed
    /\ ~AnyOpen

EscapeCloses ==
    [][(Records("escape") /\ KeyEscape) =>
          IF AnyOpen
          THEN menuDom' = DomClosed /\ AllClosedNext /\ focus' = ToggleEl
          ELSE MenuUntouched /\ focus' = focus]_vars

\* Escape closed an open menu and the focus is on the button.
EscapeWitness ==
    /\ mlast.op = "escape"
    /\ mlast.wasOpen
    /\ ~AnyOpen
    /\ focus = ToggleEl
    /\ menuDom = DomClosed

\* C17 - focus trap: with the menu open and focusable elements in it, Tab on
\* the last goes to the first and Shift+Tab on the first goes to the last,
\* so Tab from inside the menu stays inside; with the menu closed Tab takes
\* its default action.
FocusTrapped ==
    [][((Records("tab") \/ Records("shiftTab")) /\ KeyTab) =>
          LET shiftKey == (mlast'.op = "shiftTab")
              e == Event("Tab", shiftKey, "document")
          IN /\ (AnyOpen /\ numItems > 0 /\ ~shiftKey /\ focus = LastItem) =>
                   focus' = FirstItem
             /\ (AnyOpen /\ numItems > 0 /\ shiftKey /\ focus = FirstItem) =>
                   focus' = LastItem
             /\ (AnyOpen /\ focus \in MenuItems) => focus' \in MenuItems
             /\ ~AnyOpen => focus' = TabDefault(MenuPage, e).focus]_vars

\* Tab on the last of several links of an open menu went to the first.
FocusTrapWitness ==
    /\ mlast.op = "tab"
    /\ mlast.wasOpen
    /\ numItems > 1
    /\ mlast.preFocus = numItems
    /\ focus = FirstItem

=============================================================================
